---- MODULE Spec2Model ----
(***************************************************************************)
(* The time-integrator callbacks of the Richards process kernel:           *)
(* Richards::fun (residual), Richards::update_precon (preconditioner       *)
(* update) and Richards::enorm (error norm), src/src/field_models/eos/     *)
(* eos_constant.hh lines 84-337.                                           *)
(*                                                                         *)
(* Three specifications share the variables:                               *)
(*   Spec      one process, fun and update_precon driven by the time       *)
(*             integrator;                                                 *)
(*   SpecNorm  one process, enorm over a range of tolerances, fields and   *)
(*             corrections;                                                *)
(*   SpecMPI   several ranks, each executing enorm with its blocking       *)
(*             all-reduce operations as separate steps.                    *)
(***************************************************************************)
EXTENDS Integers, Sequences, FiniteSets, TLC

\* ------------------------------------------------------------- bounds
NCells == 2
MaxT == 1
MaxIter == 2
MaxAcc == 1
NRanks == 2
MaxCalls == 2

\* The continuation constant 1.e5 of enorm.
K == 100000

Cells == 1..NCells
Times == 0..MaxT
Ranks == 1..NRanks

\* --------------------------------------------------- double arithmetic
\* A double is a pair <<n, d>> in lowest terms with d >= 0:
\* d > 0 is the number n/d, <<1,0>> is +inf, <<-1,0>> is -inf, <<0,0>> is NaN.
Sign(n) == IF n > 0 THEN 1 ELSE IF n < 0 THEN -1 ELSE 0

IAbs(n) == IF n < 0 THEN -n ELSE n

RECURSIVE GCD(_, _)
GCD(a, b) == IF b = 0 THEN a ELSE GCD(b, a % b)

Norm(n, d) ==
  IF d = 0 THEN <<Sign(n), 0>>
  ELSE LET q == GCD(IAbs(n), IAbs(d))
       IN  <<(Sign(d) * n) \div q, IAbs(d) \div q>>

Dbl(n) == <<n, 1>>

Zero == <<0, 1>>

NaN == <<0, 0>>

PosInf == <<1, 0>>

IsNaN(a) == a = NaN

RAdd(a, b) ==
  IF a[2] = 0 \/ b[2] = 0
  THEN IF IsNaN(a) \/ IsNaN(b) THEN NaN
       ELSE IF a[2] = 0 /\ b[2] = 0 THEN (IF a = b THEN a ELSE NaN)
       ELSE IF a[2] = 0 THEN a ELSE b
  ELSE LET q == GCD(a[2], b[2])
       IN  Norm(a[1] * (b[2] \div q) + b[1] * (a[2] \div q), (a[2] \div q) * b[2])

RSub(a, b) == RAdd(a, <<-b[1], b[2]>>)

\* Factors are cancelled crosswise before multiplying.
RMul(a, b) ==
  IF a[2] = 0 \/ b[2] = 0 THEN <<Sign(a[1]) * Sign(b[1]), 0>>
  ELSE LET q1 == GCD(IAbs(a[1]), b[2])
           q2 == GCD(IAbs(b[1]), a[2])
       IN  Norm((a[1] \div q1) * (b[1] \div q2), (a[2] \div q2) * (b[2] \div q1))

\* x/0 is +-inf, 0/0 is NaN, x/inf is 0, inf/inf is NaN.
RDiv(a, b) ==
  IF b[1] = 0 /\ b[2] # 0 THEN <<Sign(a[1]), 0>>
  ELSE IF b[2] = 0 THEN (IF a[2] = 0 THEN NaN ELSE Zero)
  ELSE RMul(a, <<Sign(b[1]) * b[2], IAbs(b[1])>>)

\* n1/d1 < n2/d2 for d1, d2 > 0, by integer parts and then the remainders'
\* reciprocals, so that no product is formed.
RECURSIVE FracLess(_, _, _, _)
FracLess(n1, d1, n2, d2) ==
  LET q1 == n1 \div d1
      q2 == n2 \div d2
      r1 == n1 % d1
      r2 == n2 % d2
  IN  IF q1 # q2 THEN q1 < q2
      ELSE IF r2 = 0 THEN FALSE
      ELSE IF r1 = 0 THEN TRUE
      ELSE FracLess(d2, r2, d1, r1)

\* operator< of doubles: false when either side is NaN.
RLess(a, b) ==
  IF IsNaN(a) \/ IsNaN(b) THEN FALSE
  ELSE IF a[2] = 0 /\ b[2] = 0 THEN a[1] < b[1]
  ELSE IF a[2] = 0 THEN a[1] < 0
  ELSE IF b[2] = 0 THEN b[1] > 0
  ELSE FracLess(a[1], a[2], b[1], b[2])

RLeq(a, b) == ~IsNaN(a) /\ ~IsNaN(b) /\ (a = b \/ RLess(a, b))

\* std::max<double>(a, b) is (a < b) ? b : a.
std_max(a, b) == IF RLess(a, b) THEN b ELSE a

\* std::abs(double)
fabs(a) == <<IAbs(a[1]), a[2]>>

\* ::abs(int) applied to a double: the argument is converted to int
\* (truncated toward zero) first.
int_abs(a) == <<IAbs(a[1]) \div a[2], 1>>

\* ----------------------------------------------------------- variables
VARIABLES
  S_inter,                \* old snapshot  [time, p]
  S_next,                 \* next snapshot [time, p]
  niter,                  \* niter_
  bc_time,                \* the time bc_markers_/bc_values_ were computed for, -1: never
  g,                      \* the residual vector handed to fun
  Acc, Fc,                \* preconditioner_->Acc_cells(), Fc_cells()
  schur,                  \* the assembled Schur complement data, <<>>: none
  assemble_preconditioner,\* assemble_preconditioner_
  aborted,                \* a failed ASSERT ended the process
  last_call,              \* the last callback invoked and its arguments
  atol, rtol, atol0, rtol0, continuation_to_ss,
  abs_is_int,             \* the overload the unqualified abs resolves to
  enorm_ret,              \* the value the last enorm returned
  verbose,                \* per rank: out_.get() && includesVerbLevel(VERB_HIGH)
  pc,                     \* per rank: position inside enorm
  ncalls,                 \* per rank: enorm calls started
  du_hist,                \* per rank: du of every enorm call started
  ret_hist,               \* per rank: the value every finished enorm call returned
  ncoll,                  \* per rank: all-reduces entered on MPI_COMM_WORLD
  coll                    \* per all-reduce in order: rank -> contribution

vars == <<S_inter, S_next, niter, bc_time, g, Acc, Fc, schur,
          assemble_preconditioner, aborted, last_call, atol, rtol, atol0, rtol0,
          continuation_to_ss, abs_is_int, enorm_ret, verbose, pc, ncalls,
          du_hist, ret_hist, ncoll, coll>>

tiVars == <<S_inter, S_next, niter, bc_time, g, Acc, Fc, schur, aborted>>

normVars == <<atol, rtol, enorm_ret>>

configVars == <<assemble_preconditioner, atol0, rtol0, continuation_to_ss,
                abs_is_int, verbose>>

mpiVars == <<pc, ncalls, du_hist, ret_hist, ncoll, coll>>

\* ------------------------------------------------- fields and snapshots
PVals == {0, 1, 2}

Solutions == [Cells -> PVals]

HVals == {1, 2}

\* The iterates the nonlinear solver hands to fun and update_precon: a uniform
\* field and a ramp.
Iterates == {[c \in Cells |-> 1], [c \in Cells |-> IF c = 1 THEN 1 ELSE 2]}

ZeroVec == [c \in Cells |-> Zero]

\* The "water_content" field evaluator and its derivative with respect to
\* pressure, owned by the constitutive-model layer.
water_content(p) == IF p = 0 THEN Zero ELSE IF p = 1 THEN <<1, 2>> ELSE Dbl(10)

dwater_content_dp(p) == IF p <= 1 THEN Dbl(1) ELSE Dbl(2)

Snapshot(t, p) == [time |-> t, p |-> p]

\* solution_to_state(u, S): the state's primary field becomes the solution.
solution_to_state(u, S) == [S EXCEPT !.p = u]

Call(op, t_old, t_new, h, du) ==
  [op |-> op, t_old |-> t_old, t_new |-> t_new, h |-> h, du |-> du,
   tick |-> 1 - last_call.tick]

\* ------------------------------------------------------ Richards::fun
\* ASSERT(S_inter_->time() == t_old); ASSERT(S_next_->time() == t_new);
\* A false ASSERT ends the process (aborted).
fun_asserts_old_only(t_old, t_new) == S_inter.time = t_old

fun_asserts(t_old, t_new) == S_inter.time = t_old /\ S_next.time = t_new

\* ApplyDiffusion_: the discrete divergence of the Darcy flux, here on a chain
\* of cells with unit rel-perm and no gravity.
ApplyDiffusion_(S, res) ==
  [c \in Cells |->
     RAdd(res[c],
          Dbl((IF c - 1 \in Cells THEN S.p[c] - S.p[c - 1] ELSE 0)
              + (IF c + 1 \in Cells THEN S.p[c] - S.p[c + 1] ELSE 0)))]

\* AddAccumulation_: res[c] += (wc_new[c] - wc_old[c]) / h.
AddAccumulation_(Sn, Si, res) ==
  [c \in Cells |->
     RAdd(res[c],
          RDiv(RSub(water_content(Sn.p[c]), water_content(Si.p[c])),
               Dbl(Sn.time - Si.time)))]

fun_touching_old(t_old, t_new, u_old, u_new) ==
  /\ ~aborted
  /\ niter < MaxIter
  /\ niter' = niter + 1
  /\ last_call' = Call("fun", t_old, t_new, 0, <<>>)
  /\ IF fun_asserts(t_old, t_new)
     THEN /\ S_inter' = solution_to_state(u_new, S_inter)
          /\ S_next' = solution_to_state(u_new, S_next)
          /\ bc_time' = t_new
          /\ g' = AddAccumulation_(S_next', S_inter',
                                   ApplyDiffusion_(S_next', ZeroVec))
          /\ aborted' = FALSE
     ELSE /\ aborted' = TRUE
          /\ UNCHANGED <<S_inter, S_next, bc_time, g>>
  /\ UNCHANGED <<Acc, Fc, schur>>
  /\ UNCHANGED <<normVars, configVars, mpiVars>>

fun(t_old, t_new, u_old, u_new) ==
  /\ ~aborted
  /\ niter < MaxIter
  /\ niter' = niter + 1                                      \* niter_++
  /\ last_call' = Call("fun", t_old, t_new, 0, <<>>)
  /\ IF fun_asserts(t_old, t_new)
     THEN /\ S_next' = solution_to_state(u_new, S_next)
          /\ bc_time' = t_new                                \* bc_*->Compute(t_new)
          /\ g' = AddAccumulation_(S_next', S_inter,
                                   ApplyDiffusion_(S_next', ZeroVec))
          /\ aborted' = FALSE
     ELSE /\ aborted' = TRUE
          /\ UNCHANGED <<S_next, bc_time, g>>
  /\ UNCHANGED <<S_inter, Acc, Fc, schur>>
  /\ UNCHANGED <<normVars, configVars, mpiVars>>

\* --------------------------------------------- Richards::update_precon
\* ASSERT(S_next_->time() == t);
update_precon_asserts(t) == S_next.time = t

\* CreateMFDstiffnessMatrices / CreateMFDrhsVectors / AddGravityFluxes_:
\* rebuild the stiffness and flux blocks; the accumulation diagonal Acc and
\* the right-hand-side correction Fc are left as they are.
CreateMFD(acc) == acc

\* Acc_cells[c] += dwc_dp[c] / h;  Fc_cells[c] += pres[c] * dwc_dp[c] / h;
AccCells(acc, p, h) ==
  [c \in Cells |-> RAdd(acc[c], RDiv(dwater_content_dp(p[c]), Dbl(h)))]

FcCells(fc, p, h) ==
  [c \in Cells |->
     RAdd(fc[c], RDiv(RMul(Dbl(p[c]), dwater_content_dp(p[c])), Dbl(h)))]

update_precon(t, up, h) ==
  /\ ~aborted
  /\ \A c \in Cells : RLeq(Acc[c], Dbl(MaxAcc))
  /\ last_call' = Call("update_precon", t, t, h, <<>>)
  /\ IF update_precon_asserts(t)
     THEN /\ S_next' = solution_to_state(up, S_next)
          /\ bc_time' = S_next.time
          /\ Acc' = AccCells(CreateMFD(Acc), up, h)
          /\ Fc' = FcCells(CreateMFD(Fc), up, h)
          /\ schur' = IF assemble_preconditioner THEN Acc' ELSE schur
          /\ aborted' = FALSE
     ELSE /\ aborted' = TRUE
          /\ UNCHANGED <<S_next, bc_time, Acc, Fc, schur>>
  /\ UNCHANGED <<S_inter, niter, g>>
  /\ UNCHANGED <<normVars, configVars, mpiVars>>

\* ------------------------------------------------ the time integrator
\* S_next_->advance_time(dt)
advance_time(dt) ==
  /\ ~aborted
  /\ S_next.time + dt <= MaxT
  /\ S_next' = [S_next EXCEPT !.time = @ + dt]
  /\ last_call' = Call("driver", 0, 0, 0, <<>>)
  /\ UNCHANGED <<S_inter, niter, bc_time, g, Acc, Fc, schur, aborted>>
  /\ UNCHANGED <<normVars, configVars, mpiVars>>

\* the step is accepted: *S_inter_ = *S_next_
commit_state ==
  /\ ~aborted
  /\ S_inter # S_next
  /\ S_inter' = S_next
  /\ last_call' = Call("driver", 0, 0, 0, <<>>)
  /\ UNCHANGED <<S_next, niter, bc_time, g, Acc, Fc, schur, aborted>>
  /\ UNCHANGED <<normVars, configVars, mpiVars>>

NominalAtol == <<1, 100000>>

NominalRtol == <<1, 10000>>

NoCall == [op |-> "none", t_old |-> 0, t_new |-> 0, h |-> 0, du |-> <<>>, tick |-> 0]

InitTI ==
  /\ S_inter = Snapshot(0, [c \in Cells |-> 1])
  /\ S_next = Snapshot(0, [c \in Cells |-> 1])
  /\ niter = 0
  /\ bc_time = -1
  /\ g = ZeroVec
  /\ Acc = ZeroVec
  /\ Fc = ZeroVec
  /\ schur = <<>>
  /\ aborted = FALSE
  /\ last_call = NoCall

InitNormFixed ==
  /\ atol0 = NominalAtol
  /\ rtol0 = NominalRtol
  /\ atol = atol0
  /\ rtol = rtol0
  /\ continuation_to_ss = FALSE
  /\ abs_is_int = FALSE
  /\ enorm_ret = Zero

InitMPIFixed ==
  /\ verbose = [r \in Ranks |-> FALSE]
  /\ pc = [r \in Ranks |-> "idle"]
  /\ ncalls = [r \in Ranks |-> 0]
  /\ du_hist = [r \in Ranks |-> <<>>]
  /\ ret_hist = [r \in Ranks |-> <<>>]
  /\ ncoll = [r \in Ranks |-> 0]
  /\ coll = <<>>

Init ==
  /\ InitTI
  /\ assemble_preconditioner \in BOOLEAN
  /\ InitNormFixed
  /\ InitMPIFixed

Next ==
  \/ \E t_old \in Times, t_new \in Times, u_new \in Iterates :
       fun(t_old, t_new, S_inter.p, u_new)
  \/ \E t \in Times, up \in Iterates, h \in HVals : update_precon(t, up, h)
  \/ \E dt \in 1..MaxT : advance_time(dt)
  \/ commit_state

Spec == Init /\ [][Next]_vars

\* ----------------------------------------------------- Richards::enorm
\* atol_ = atol0_ + 1.e5*atol0_/(1.0 + S_next_->time());
continuation_tol_unscaled(tol0, t) == RAdd(tol0, RDiv(Dbl(K), Dbl(1 + t)))

continuation_tol(tol0, t) == RAdd(tol0, RDiv(RMul(Dbl(K), tol0), Dbl(1 + t)))

\* The unqualified abs(...) of lines 301: std::abs(double) where the headers
\* declare that overload in scope, ::abs(int) where they do not.
abs(x) == IF abs_is_int THEN int_abs(x) ELSE fabs(x)

\* double tmp = abs(h*res("cell",c)) / (atol_+rtol_*abs(wc("cell",c)));
cell_error_signed(h, duc, wcc, at, rt) ==
  RDiv(RMul(h, duc), RAdd(at, RMul(rt, abs(wcc))))

cell_error(h, duc, wcc, at, rt) ==
  RDiv(abs(RMul(h, duc)), RAdd(at, RMul(rt, abs(wcc))))

\* for (int c=0; c!=ncells; ++c) enorm_cell = std::max<double>(enorm_cell, tmp);
RECURSIVE enorm_cell_loop(_, _, _, _, _, _)
enorm_cell_loop(c, enorm_cell, h, du, at, rt) ==
  IF c > NCells THEN enorm_cell
  ELSE enorm_cell_loop(c + 1,
         std_max(enorm_cell,
                 cell_error(h, du[c], water_content(S_next.p[c]), at, rt)),
         h, du, at, rt)

\* The rank's own value: enorm_val = max(enorm_face, enorm_cell), enorm_face = 0.
enorm_local(du, at, rt) ==
  std_max(Zero,
          enorm_cell_loop(1, Zero, Dbl(S_next.time - S_inter.time), du, at, rt))

\* The tolerances enorm works with.
enorm_atol == IF continuation_to_ss THEN continuation_tol(atol0, S_next.time) ELSE atol

enorm_rtol == IF continuation_to_ss THEN continuation_tol(rtol0, S_next.time) ELSE rtol

\* enorm on a single process: every MPI_Allreduce returns the rank's own value.
enorm(u, du) ==
  /\ ~aborted
  /\ atol' = enorm_atol
  /\ rtol' = enorm_rtol
  /\ enorm_ret' = enorm_local(du, enorm_atol, enorm_rtol)
  /\ last_call' = Call("enorm", 0, 0, 0, du)
  /\ UNCHANGED <<tiVars, configVars, mpiVars>>

DuVals == {Zero, <<1, 1000>>, <<-3, 2>>}

\* The corrections enorm is called with: any value in the first cell, any
\* one value in the others.
Corrections == {du \in [Cells -> DuVals] : \A c \in Cells : c > 2 => du[c] = du[2]}

\* The fields enorm is evaluated on: wc = 10 everywhere, wc = 0 in the first
\* cell, wc = 1/2 everywhere.
NormFields == {[c \in Cells |-> 2], [c \in Cells |-> IF c = 1 THEN 0 ELSE 2],
               [c \in Cells |-> 1]}

\* <<atol0, rtol0>>: the nominal pair, pairs that make atol + rtol*|wc| zero
\* in some or in all cells, and a pair that makes it negative where wc < 1.
Tolerances == {<<NominalAtol, NominalRtol>>, <<Zero, NominalRtol>>,
               <<Zero, Zero>>, <<Dbl(-1), Dbl(1)>>}

InitNorm ==
  /\ \E p0 \in NormFields :
       /\ S_inter = Snapshot(0, p0)
       /\ S_next = Snapshot(0, p0)
  /\ niter = 0
  /\ bc_time = -1
  /\ g = ZeroVec
  /\ Acc = ZeroVec
  /\ Fc = ZeroVec
  /\ schur = <<>>
  /\ aborted = FALSE
  /\ last_call = NoCall
  /\ assemble_preconditioner = TRUE
  /\ \E tol \in Tolerances : atol0 = tol[1] /\ rtol0 = tol[2]
  /\ atol = atol0
  /\ rtol = rtol0
  /\ continuation_to_ss \in BOOLEAN
  /\ abs_is_int \in BOOLEAN
  /\ enorm_ret = Zero
  /\ InitMPIFixed

NextNorm ==
  \/ \E du \in Corrections : enorm(S_next.p, du)
  \/ \E dt \in 1..MaxT : advance_time(dt)
  \/ commit_state

SpecNorm == InitNorm /\ [][NextNorm]_vars

\* ------------------------------------- Richards::enorm on several ranks
\* Every rank holds a partition with the fields of S_next and its own part of
\* du.  The all-reduces on MPI_COMM_WORLD are matched in the order in which
\* each rank enters them: coll[k][r] is what rank r contributed to its k-th.
\* HAVE_MPI is defined (the file calls MPI_Allreduce unconditionally).  The
\* NormInf calls of the verbosity block reduce over the vectors' own
\* communicator and only feed the printed line; they are left out.
NoContribution == [kind |-> "none", val |-> Zero]

Contribute(r, kind, val) ==
  LET k == ncoll[r] + 1
      slots == IF k > Len(coll)
               THEN Append(coll, [q \in Ranks |-> NoContribution])
               ELSE coll
  IN  /\ ncoll' = [ncoll EXCEPT ![r] = k]
      /\ coll' = [slots EXCEPT ![k][r] = [kind |-> kind, val |-> val]]

\* The blocking all-reduce rank r is in has every rank's contribution.
AllreduceComplete(r) == \A q \in Ranks : coll[ncoll[r]][q].kind # "none"

RECURSIVE ReduceMax(_, _, _)
ReduceMax(q, acc, slot) ==
  IF q > NRanks THEN acc
  ELSE ReduceMax(q + 1, IF RLess(acc, slot[q].val) THEN slot[q].val ELSE acc, slot)

\* MPI_Allreduce(..., MPI_DOUBLE, MPI_MAX, MPI_COMM_WORLD)
MPI_MAX(slot) == ReduceMax(2, slot[1].val, slot)

CurrentDu(r) == du_hist[r][Len(du_hist[r])]

\* enorm up to its first all-reduce: the tolerance update, the cell loop, and
\* then MPI_Allreduce(&enorm_cell, &buf_c, ...) inside the verbosity block, or
\* MPI_Allreduce(&buf, &enorm_val, ...) where the block is skipped.
enorm_begin(r, du) ==
  /\ pc[r] = "idle"
  /\ ncalls[r] < MaxCalls
  /\ atol' = enorm_atol
  /\ rtol' = enorm_rtol
  /\ ncalls' = [ncalls EXCEPT ![r] = @ + 1]
  /\ du_hist' = [du_hist EXCEPT ![r] = Append(@, du)]
  /\ IF verbose[r]
     THEN /\ Contribute(r, "diag",
                        enorm_cell_loop(1, Zero, Dbl(S_next.time - S_inter.time),
                                        du, enorm_atol, enorm_rtol))
          /\ pc' = [pc EXCEPT ![r] = "diag"]
     ELSE /\ Contribute(r, "result", enorm_local(du, enorm_atol, enorm_rtol))
          /\ pc' = [pc EXCEPT ![r] = "result"]
  /\ UNCHANGED <<tiVars, configVars, last_call, enorm_ret, ret_hist>>

\* The diagnostic all-reduce returns, the line is printed, and the rank enters
\* MPI_Allreduce(&buf, &enorm_val, ...).
enorm_diag_done(r) ==
  /\ pc[r] = "diag"
  /\ AllreduceComplete(r)
  /\ Contribute(r, "result", enorm_local(CurrentDu(r), atol, rtol))
  /\ pc' = [pc EXCEPT ![r] = "result"]
  /\ UNCHANGED <<tiVars, configVars, normVars, last_call, ncalls, du_hist, ret_hist>>

\* The last all-reduce returns and enorm returns enorm_val.
enorm_return(r) ==
  /\ pc[r] = "result"
  /\ AllreduceComplete(r)
  /\ ret_hist' = [ret_hist EXCEPT ![r] = Append(@, MPI_MAX(coll[ncoll[r]]))]
  /\ pc' = [pc EXCEPT ![r] = "idle"]
  /\ UNCHANGED <<tiVars, configVars, normVars, last_call, ncalls, du_hist, ncoll, coll>>

\* The corrections of the several-rank runs: the same value in every cell.
RankCorrections == {[c \in Cells |-> v] : v \in DuVals}

InitMPI ==
  /\ S_inter = Snapshot(0, [c \in Cells |-> 2])
  /\ S_next = Snapshot(1, [c \in Cells |-> 2])
  /\ niter = 0
  /\ bc_time = -1
  /\ g = ZeroVec
  /\ Acc = ZeroVec
  /\ Fc = ZeroVec
  /\ schur = <<>>
  /\ aborted = FALSE
  /\ last_call = NoCall
  /\ assemble_preconditioner = TRUE
  /\ atol0 = NominalAtol
  /\ rtol0 = NominalRtol
  /\ atol = atol0
  /\ rtol = rtol0
  /\ continuation_to_ss \in BOOLEAN
  /\ abs_is_int \in BOOLEAN
  /\ enorm_ret = Zero
  /\ verbose \in [Ranks -> BOOLEAN]
  /\ pc = [r \in Ranks |-> "idle"]
  /\ ncalls = [r \in Ranks |-> 0]
  /\ du_hist = [r \in Ranks |-> <<>>]
  /\ ret_hist = [r \in Ranks |-> <<>>]
  /\ ncoll = [r \in Ranks |-> 0]
  /\ coll = <<>>

NextMPI ==
  \/ \E r \in Ranks, du \in RankCorrections : enorm_begin(r, du)
  \/ \E r \in Ranks : enorm_diag_done(r)
  \/ \E r \in Ranks : enorm_return(r)

SpecMPI == InitMPI /\ [][NextMPI]_vars

\* ======================================================= the claims
\* The step is an invocation of the callback op.
Invoked(op) == last_call'.tick # last_call.tick /\ last_call'.op = op

\* C1: update_precon called twice in direct succession on the same iterate u,
\* time t and step h does not double the accumulation diagonal: the second
\* call leaves Acc[c] and Fc[c] at the contribution of the first call.
C1_NoDoubleAccumulation ==
  [][(/\ last_call.op = "update_precon" /\ ~aborted
      /\ Invoked("update_precon") /\ ~aborted'
      /\ last_call'.t_new = last_call.t_new
      /\ last_call'.h = last_call.h
      /\ S_next'.p = S_next.p)
     => (Acc' = Acc /\ Fc' = Fc)]_vars

\* C2: fun called with time stamps that match the snapshots and a step
\* h = t_new - t_old <= 0 ends in a fatal assertion, before u_new is
\* propagated into the next state and before g is written.
C2_NonPositiveStepAborts ==
  [][(/\ Invoked("fun")
      /\ S_inter.time = last_call'.t_old
      /\ S_next.time = last_call'.t_new
      /\ last_call'.t_new - last_call'.t_old <= 0)
     => (aborted' /\ S_next' = S_next /\ g' = g)]_vars

\* C3: fun aborts whenever the old snapshot's time differs from t_old or the
\* next snapshot's time differs from t_new, update_precon aborts whenever the
\* next snapshot's time differs from t, and in each such call nothing of the
\* next state, the residual or the preconditioner state has been written.
C3_TimeStampContract ==
  [][/\ (/\ Invoked("fun")
         /\ (S_inter.time # last_call'.t_old \/ S_next.time # last_call'.t_new))
        => (aborted' /\ UNCHANGED <<S_next, g, Acc, Fc, schur>>)
     /\ (Invoked("update_precon") /\ S_next.time # last_call'.t_new)
        => (aborted' /\ UNCHANGED <<S_next, g, Acc, Fc, schur>>)]_vars

\* A second residual call, made with the right old time and the wrong new
\* time, has aborted.
C3_Witness ==
  /\ aborted
  /\ last_call.op = "fun"
  /\ niter = 2
  /\ S_inter.time = last_call.t_old
  /\ S_next.time # last_call.t_new

\* C9 as stated: fun changes nothing but g and the next snapshot; the old
\* snapshot, the preconditioner state, the tolerances, the iteration counter
\* and the boundary markers and values are left unchanged.
C9_FunNoSideEffect ==
  [][Invoked("fun")
     => UNCHANGED <<S_inter, Acc, Fc, schur, atol, rtol, niter, bc_time>>]_vars

\* C9 as amended: fun increments the iteration counter, and when its
\* assertions pass recomputes the boundary data at t_new; it leaves the old
\* snapshot, the preconditioner state and the tolerances unchanged.
C9_FunFrame ==
  [][Invoked("fun")
     => (/\ UNCHANGED <<S_inter, Acc, Fc, schur, atol, rtol>>
         /\ niter' = niter + 1
         /\ (~aborted' => bc_time' = last_call'.t_new))]_vars

\* A residual call that followed a preconditioner update and a committed step
\* has returned.
C9_Witness ==
  /\ last_call.op = "fun"
  /\ ~aborted
  /\ Acc # ZeroVec
  /\ S_inter.p # [c \in Cells |-> 1]
  /\ S_next.p # S_inter.p
  /\ bc_time = last_call.t_new

\* C4 as stated: with continuation active enorm sets atol = atol0 + K/(1+t_new)
\* and rtol = rtol0 + K/(1+t_new); with continuation inactive it leaves both.
C4_ContinuationUnscaled ==
  [][Invoked("enorm")
     => IF continuation_to_ss
        THEN /\ atol' = RAdd(atol0, RDiv(Dbl(K), Dbl(1 + S_next.time)))
             /\ rtol' = RAdd(rtol0, RDiv(Dbl(K), Dbl(1 + S_next.time)))
        ELSE UNCHANGED <<atol, rtol>>]_vars

\* C4 as amended: with continuation active enorm sets
\* atol = atol0 + K*atol0/(1+t_new) and rtol = rtol0 + K*rtol0/(1+t_new);
\* with continuation inactive it leaves both.
C4_ContinuationScaled ==
  [][Invoked("enorm")
     => IF continuation_to_ss
        THEN /\ atol' = RAdd(atol0, RDiv(RMul(Dbl(K), atol0), Dbl(1 + S_next.time)))
             /\ rtol' = RAdd(rtol0, RDiv(RMul(Dbl(K), rtol0), Dbl(1 + S_next.time)))
        ELSE UNCHANGED <<atol, rtol>>]_vars

\* enorm has run in continuation mode at a positive time with the nominal
\* tolerances, and has loosened both.
C4_Witness ==
  /\ last_call.op = "enorm"
  /\ continuation_to_ss
  /\ S_next.time > 0
  /\ atol0 = NominalAtol /\ rtol0 = NominalRtol
  /\ atol # atol0 /\ rtol # rtol0

\* |h*du[c]| / (atol + rtol*|wc[c]|) in exact arithmetic.
ScaledError(c, du) ==
  RDiv(fabs(RMul(Dbl(S_next.time - S_inter.time), du[c])),
       RAdd(atol, RMul(rtol, fabs(water_content(S_next.p[c])))))

\* C5: on a single process, with positive tolerance denominators, the value
\* enorm returned is the maximum over the cells of |h*du[c]|/(atol+rtol*|wc[c]|),
\* without truncation of fractional values.
C5_ExactNorm ==
  (/\ last_call.op = "enorm"
   /\ \A c \in Cells :
        RLess(Zero, RAdd(atol, RMul(rtol, fabs(water_content(S_next.p[c]))))))
  => /\ \A c \in Cells : RLeq(ScaledError(c, last_call.du), enorm_ret)
     /\ \E c \in Cells : ScaledError(c, last_call.du) = enorm_ret

AbsLeq(du1, du2) == \A c \in Cells : RLeq(fabs(du1[c]), fabs(du2[c]))

\* C7: enorm is non-decreasing in |du| componentwise: the value enorm returned
\* for du is at most the value it returns, in the same state, for every
\* correction du2 with |du[c]| <= |du2[c]| in every cell, also where
\* atol + rtol*|wc[c]| is zero or negative.
C7_Monotone ==
  last_call.op = "enorm"
  => \A du2 \in Corrections :
       AbsLeq(last_call.du, du2)
       => RLeq(enorm_ret, enorm_local(du2, enorm_atol, enorm_rtol))

\* enorm has returned +inf: some cell has a zero denominator and a non-zero
\* scaled correction, next to a cell with a negative or zero one.
C7_Witness ==
  /\ last_call.op = "enorm"
  /\ enorm_ret = PosInf
  /\ S_next.time > S_inter.time
  /\ \E c \in Cells : last_call.du[c] = Zero

\* The value rank r computed from its own cells in its k-th call.
LocalNorm(r, k) == enorm_local(du_hist[r][k], atol, rtol)

RECURSIVE MaxLocalNorm(_, _, _)
MaxLocalNorm(q, acc, k) ==
  IF q > NRanks THEN acc
  ELSE MaxLocalNorm(q + 1, IF RLess(acc, LocalNorm(q, k)) THEN LocalNorm(q, k) ELSE acc, k)

AllCalled(k) == \A q \in Ranks : Len(du_hist[q]) >= k

\* C6: when all ranks call enorm, the value returned on every rank is the
\* maximum of the ranks' local norms of that call.
C6_GlobalMaximum ==
  \A r \in Ranks : \A k \in 1..Len(ret_hist[r]) :
    AllCalled(k) => ret_hist[r][k] = MaxLocalNorm(1, Zero, k)

\* C8: enorm never returns a negative value, and returns exactly 0 whenever
\* du is the zero vector on every rank.
C8_NonNegativeZero ==
  \A r \in Ranks : \A k \in 1..Len(ret_hist[r]) :
    /\ RLeq(Zero, ret_hist[r][k])
    /\ (AllCalled(k) /\ \A q \in Ranks : du_hist[q][k] = ZeroVec)
       => ret_hist[r][k] = Zero

\* C10: every rank performs the same sequence of all-reduces in a call of
\* enorm whatever its verbosity: no all-reduce pairs one rank's diagnostic
\* value with another rank's result value, and no rank has returned from a
\* call that another rank is still reducing in.
C10_SameCollectiveSequence ==
  /\ \A k \in 1..Len(coll) : \A q1 \in Ranks, q2 \in Ranks :
       (coll[k][q1].kind # "none" /\ coll[k][q2].kind # "none")
       => coll[k][q1].kind = coll[k][q2].kind
  /\ \A q1 \in Ranks, q2 \in Ranks :
       (pc[q1] # "idle" /\ Len(ret_hist[q2]) >= ncalls[q1])
       => AllreduceComplete(q1)

====
